---- MODULE Spec2Model ----
(***************************************************************************)
(* A model of common/buffer.cc:     the reference-counted buffer::ptr      *)
(* (a view onto a buffer::raw), and the buffer::list operations            *)
(* rebuild_page_aligned and write_fd.                                      *)
(*                                                                         *)
(* Specifications:                                                         *)
(*   Spec      buffer::ptr objects and the raws they share (sequential)    *)
(*   SpecSub   the sub-range constructor over every unsigned argument pair *)
(*   SpecWrite buffer::list::write_fd against a writev that may write      *)
(*             short, be interrupted, or fail                              *)
(*   SpecRebuild buffer::list::rebuild_page_aligned, applied twice         *)
(*   SpecFile  buffer::list::read_file and write_file, call by call        *)
(*   SpecB64   buffer::list::decode_base64 with a decoder that may fail    *)
(*   SpecThreads threads releasing, copying and copy-on-writing ptrs onto  *)
(*             one raw                                                     *)
(***************************************************************************)
EXTENDS Integers, Sequences, FiniteSets, TLC

VARIABLES
  \* ---- buffer::ptr objects and buffer::raw objects
  ptrs,      \* ptr slot -> [st, raw, off, len]; st = "none" when no object lives there
  raws,      \* raw id -> [st, nref, len, data]
  uaf,       \* some operation read a raw after it was deleted
  dfree,     \* some raw was deleted a second time
  aborted,   \* an assert failed or a null raw was dereferenced: the process is gone
  lastOp,    \* the operation that produced this state (history)
  \* ---- the sub-range constructor on machine integers
  sub,
  \* ---- write_fd
  wf,
  \* ---- rebuild_page_aligned
  rb,
  \* ---- read_file and write_file
  fio,
  \* ---- decode_base64
  b64,
  \* ---- threads that share one raw
  th

vars == <<ptrs, raws, uaf, dfree, aborted, lastOp, sub, wf, rb, fio, b64, th>>

(***************************************************************************)
(* Bounds of the model.                                                    *)
(***************************************************************************)
NPtr == 2        \* buffer::ptr objects that can exist at once
MaxRaw == 2      \* buffer::raw objects that can exist at once
MaxLen == 2      \* longest raw, in bytes
MaxNref == 3     \* cap on nref (a leaked count could otherwise grow for ever)
UINT_BITS == 3   \* width of `unsigned` in the model (32 in the build)

PtrId == 1..NPtr
RawId == 1..MaxRaw
Byte == {0, 1}
UMod == 2 ^ UINT_BITS
Unsigned == 0..(UMod - 1)

RECURSIVE ByteSeqs(_)
ByteSeqs(n) == IF n = 0 THEN {<<>>}
               ELSE {Append(s, b) : s \in ByteSeqs(n - 1), b \in Byte}

Min(S) == CHOOSE x \in S : \A y \in S : x <= y

(***************************************************************************)
(* Objects.                                                                *)
(***************************************************************************)
NoPtr == [st |-> "none", raw |-> 0, off |-> 0, len |-> 0]
DeadRaw == [st |-> "dead", nref |-> 0, len |-> 0, data |-> <<>>]
NoOp == [op |-> "init", p |-> 0, q |-> 0, ret |-> FALSE, freed |-> FALSE, cow |-> FALSE]

\* The memory the ptr operations act on, as one value, so that the steps of
\* one method compose in program order.
Mem(ps, rs, u, d) == [ptrs |-> ps, raws |-> rs, uaf |-> u, dfree |-> d, freed |-> {}]
Here == Mem(ptrs, raws, uaf, dfree)

Live(m, r) == r # 0 /\ m.raws[r].st = "live"
Holders(m, r) == {p \in PtrId : m.ptrs[p].st = "obj" /\ m.ptrs[p].raw = r}

\* Addresses the allocator can hand out: not a live raw, and no ptr still
\* holds the address.
FreeIds(m) == {r \in RawId : m.raws[r].st # "live" /\ Holders(m, r) = {}}
NewId(m) == Min(FreeIds(m))

\* new raw_char(len): nref starts at 0
alloc(m, r, d) ==
  [m EXCEPT !.raws[r] = [st |-> "live", nref |-> 0, len |-> Len(d), data |-> d]]

\* r->nref.inc()
nref_inc(m, r) ==
  IF Live(m, r) THEN [m EXCEPT !.raws[r].nref = @ + 1]
  ELSE [m EXCEPT !.uaf = TRUE]

(***************************************************************************)
(* buffer::ptr methods, as functions on the memory.  `g` is what a read of *)
(* a deleted raw's nref happens to compare as (undefined behaviour).       *)
(***************************************************************************)
\* the members _raw, _off, _len of the ptr object constructed in slot p
construct(m, p, r, o, l) ==
  [m EXCEPT !.ptrs[p] = [st |-> "obj", raw |-> r, off |-> o, len |-> l]]

\* (mutant) release() that deletes the raw while one reference is left
release_early(m, p, g) ==
  LET r == m.ptrs[p].raw IN
  IF r = 0 THEN m
  ELSE LET m1 == IF Live(m, r)
                 THEN IF m.raws[r].nref - 1 <= 1
                      THEN [m EXCEPT !.raws[r] = DeadRaw, !.freed = @ \cup {r}]
                      ELSE [m EXCEPT !.raws[r].nref = @ - 1]
                 ELSE [m EXCEPT !.uaf = TRUE, !.dfree = @ \/ g]
       IN [m1 EXCEPT !.ptrs[p].raw = 0]

\* ptr::release(): if (_raw) { if (_raw->nref.dec() == 0) delete _raw; _raw = 0; }
release(m, p, g) ==
  LET r == m.ptrs[p].raw IN
  IF r = 0 THEN m
  ELSE LET m1 == IF Live(m, r)
                 THEN IF m.raws[r].nref - 1 = 0
                      THEN [m EXCEPT !.raws[r] = DeadRaw, !.freed = @ \cup {r}]
                      ELSE [m EXCEPT !.raws[r].nref = @ - 1]
                 ELSE [m EXCEPT !.uaf = TRUE, !.dfree = @ \/ g]
       IN [m1 EXCEPT !.ptrs[p].raw = 0]

\* ptr::operator=(const ptr& p): `q` is the argument, `p` is *this.  The
\* second test of p._raw reads the argument again, after release().
operator_assign(m, p, q, g) ==
  LET m1 == IF m.ptrs[q].raw # 0 THEN nref_inc(m, m.ptrs[q].raw) ELSE m
      m2 == release(m1, p, g)
  IN IF m2.ptrs[q].raw # 0
     THEN [m2 EXCEPT !.ptrs[p].raw = m2.ptrs[q].raw,
                     !.ptrs[p].off = m2.ptrs[q].off,
                     !.ptrs[p].len = m2.ptrs[q].len]
     ELSE [m2 EXCEPT !.ptrs[p].off = 0, !.ptrs[p].len = 0]

\* raw::clone(): a new raw of the same length holding the same bytes
raw_clone(m, r, n) ==
  IF Live(m, r) THEN alloc(m, n, m.raws[r].data)
  ELSE alloc([m EXCEPT !.uaf = TRUE], n, <<>>)

\* (mutant) clone_in_place() that forgets to release the old raw
clone_in_place_norelease(m, p, g) ==
  LET n == NewId(m)
      m1 == raw_clone(m, m.ptrs[p].raw, n)
      m3 == nref_inc(m1, n)
  IN [m3 EXCEPT !.ptrs[p].raw = n]

\* ptr::clone_in_place()
clone_in_place(m, p, g) ==
  LET n == NewId(m)
      m1 == raw_clone(m, m.ptrs[p].raw, n)
      m2 == release(m1, p, g)
      m3 == nref_inc(m2, n)
  IN [m3 EXCEPT !.ptrs[p].raw = n]

\* (mutant) a do_cow that takes two sharers for none
is_shared_gt2(n) == n > 2

\* the test of do_cow: _raw->nref.read() > 1
is_shared(n) == n > 1

\* ptr::do_cow(): the memory afterwards and the value returned
do_cow(m, p, g) ==
  LET r == m.ptrs[p].raw
      shared == IF Live(m, r) THEN is_shared(m.raws[r].nref) ELSE g
      m0 == IF Live(m, r) THEN m ELSE [m EXCEPT !.uaf = TRUE]
  IN IF shared THEN [m |-> clone_in_place(m0, p, g), ret |-> TRUE]
     ELSE [m |-> m0, ret |-> FALSE]

\* assert(o+l <= p._len) of the sub-range constructor, in unsigned arithmetic
sub_assert(plen, o, l) == ((o + l) % UMod) <= plen
\* _off(p._off + o), in unsigned arithmetic
sub_off(poff, o) == (poff + o) % UMod

\* ptr(const ptr& p, unsigned o, unsigned l) on parent q: the fields of the
\* new ptr, or ok = FALSE when an assert fails
ptr_sub(q, o, l) ==
  IF sub_assert(q.len, o, l) /\ q.raw # 0
  THEN [ok |-> TRUE, raw |-> q.raw, off |-> sub_off(q.off, o), len |-> l]
  ELSE [ok |-> FALSE, raw |-> 0, off |-> 0, len |-> 0]

\* in-place write of byte v at index i of the view of p
poke(m, p, i, v) ==
  LET r == m.ptrs[p].raw IN
  IF Live(m, r) THEN [m EXCEPT !.raws[r].data[m.ptrs[p].off + i + 1] = v]
  ELSE [m EXCEPT !.uaf = TRUE]

\* the bytes p views (c_str() .. c_str() + length())
View(m, p) ==
  LET r == m.ptrs[p].raw IN
  [i \in 1..m.ptrs[p].len |-> m.raws[r].data[m.ptrs[p].off + i]]

(***************************************************************************)
(* Spec: the operations on ptr objects, each one atomic (one thread).      *)
(***************************************************************************)
\* What the history keeps of an operation: its name and the ptr it acted on
\* for the operations the properties below speak of, "other" for the rest.
Recorded == {"assign", "do_cow", "poke", "release", "clone_in_place"}
Op(name, p, q) ==
  IF name \in Recorded
  THEN [op |-> name, p |-> p, q |-> q, ret |-> FALSE, freed |-> FALSE, cow |-> FALSE]
  ELSE [op |-> "other", p |-> 0, q |-> 0, ret |-> FALSE, freed |-> FALSE, cow |-> FALSE]

Commit(m, o) ==
  /\ ptrs' = m.ptrs
  /\ raws' = m.raws
  /\ uaf' = m.uaf
  /\ dfree' = m.dfree
  /\ lastOp' = [o EXCEPT !.freed = (o.op # "other" /\ m.freed # {})]
  /\ UNCHANGED <<aborted, sub, wf, rb, fio, b64, th>>

Crash(o) ==
  /\ aborted' = TRUE
  /\ lastOp' = o
  /\ UNCHANGED <<ptrs, raws, uaf, dfree, sub, wf, rb, fio, b64, th>>

CanInc(r) == IF Live(Here, r) THEN raws[r].nref < MaxNref ELSE TRUE

\* ptr(unsigned l) and ptr(const char *d, unsigned l): a fresh raw_char
PtrNew(p, d) ==
  /\ ~aborted /\ ptrs[p].st = "none" /\ FreeIds(Here) # {}
  /\ LET n == NewId(Here)
         m1 == alloc(Here, n, d)
         m2 == construct(m1, p, n, 0, Len(d))
     IN Commit(nref_inc(m2, n), Op("new", p, 0))

\* ptr(raw *r)
PtrRaw(p, r) ==
  /\ ~aborted /\ ptrs[p].st = "none" /\ Live(Here, r) /\ CanInc(r)
  /\ Commit(nref_inc(construct(Here, p, r, 0, raws[r].len), r), Op("raw", p, 0))

\* ptr(const ptr& p)
PtrCopy(p, q) ==
  /\ ~aborted /\ ptrs[p].st = "none" /\ ptrs[q].st = "obj" /\ CanInc(ptrs[q].raw)
  /\ LET m1 == construct(Here, p, ptrs[q].raw, ptrs[q].off, ptrs[q].len)
     IN Commit(IF ptrs[q].raw # 0 THEN nref_inc(m1, ptrs[q].raw) ELSE m1,
               Op("copy", p, 0))

\* ptr(const ptr& p, unsigned o, unsigned l)
PtrSub(p, q, o, l) ==
  /\ ~aborted /\ ptrs[p].st = "none" /\ ptrs[q].st = "obj" /\ CanInc(ptrs[q].raw)
  /\ LET n == ptr_sub(ptrs[q], o, l)
     IN IF n.ok
        THEN Commit(nref_inc(construct(Here, p, n.raw, n.off, n.len), n.raw),
                    Op("sub", p, 0))
        ELSE Crash(Op("sub", p, 0))

\* *this = p
PtrAssign(p, q) ==
  /\ ~aborted /\ ptrs[p].st = "obj" /\ ptrs[q].st = "obj" /\ CanInc(ptrs[q].raw)
  /\ \E g \in BOOLEAN : Commit(operator_assign(Here, p, q, g), Op("assign", p, q))

PtrCloneInPlace(p) ==
  /\ ~aborted /\ ptrs[p].st = "obj"
  /\ IF ptrs[p].raw = 0 THEN Crash(Op("clone_in_place", p, 0))
     ELSE /\ FreeIds(Here) # {}
          /\ \E g \in BOOLEAN :
               Commit(clone_in_place(Here, p, g), Op("clone_in_place", p, 0))

PtrDoCow(p) ==
  /\ ~aborted /\ ptrs[p].st = "obj"
  /\ IF ptrs[p].raw = 0 THEN Crash(Op("do_cow", p, 0))
     ELSE /\ IF Live(Here, ptrs[p].raw) /\ ~is_shared(raws[ptrs[p].raw].nref)
             THEN TRUE
             ELSE FreeIds(Here) # {}   \* a clone needs memory
          /\ \E g \in BOOLEAN :
               LET res == do_cow(Here, p, g)
               IN Commit(res.m, [Op("do_cow", p, 0) EXCEPT !.ret = res.ret])

PtrRelease(p) ==
  /\ ~aborted /\ ptrs[p].st = "obj"
  /\ \E g \in BOOLEAN : Commit(release(Here, p, g), Op("release", p, 0))

\* ~ptr(): release(), and the object is gone
PtrDestroy(p) ==
  /\ ~aborted /\ ptrs[p].st = "obj"
  /\ \E g \in BOOLEAN :
       Commit([release(Here, p, g) EXCEPT !.ptrs[p] = NoPtr], Op("destroy", p, 0))

\* an in-place content write through p
PtrPoke(p, i, v) ==
  /\ ~aborted /\ ptrs[p].st = "obj" /\ ptrs[p].raw # 0
  /\ i < ptrs[p].len
  /\ Commit(poke(Here, p, i, v),
            [Op("poke", p, 0) EXCEPT
               !.cow = (lastOp.op = "do_cow" /\ lastOp.p = p /\ ~aborted)])

IdleSub == [pc |-> "idle"]
IdleWf == [pc |-> "idle"]
IdleRb == [pc |-> "idle"]
IdleFio == [pc |-> "idle"]
IdleB64 == [pc |-> "idle"]
IdleTh == [pc |-> "idle"]

\* no ptr object and no raw yet
InitPtr ==
  /\ ptrs = [p \in PtrId |-> NoPtr]
  /\ raws = [r \in RawId |-> DeadRaw]
  /\ uaf = FALSE /\ dfree = FALSE /\ aborted = FALSE
  /\ lastOp = NoOp

Init ==
  /\ InitPtr
  /\ sub = IdleSub /\ wf = IdleWf /\ rb = IdleRb
  /\ fio = IdleFio /\ b64 = IdleB64 /\ th = IdleTh

Next ==
  \/ \E p \in PtrId, l \in 0..MaxLen : \E d \in ByteSeqs(l) : PtrNew(p, d)
  \/ \E p \in PtrId, r \in RawId : PtrRaw(p, r)
  \/ \E p \in PtrId, q \in PtrId : PtrCopy(p, q)
  \/ \E p \in PtrId, q \in PtrId, o \in 0..MaxLen, l \in 0..MaxLen : PtrSub(p, q, o, l)
  \/ \E p \in PtrId, q \in PtrId : PtrAssign(p, q)
  \/ \E p \in PtrId : PtrCloneInPlace(p)
  \/ \E p \in PtrId : PtrDoCow(p)
  \/ \E p \in PtrId : PtrRelease(p)
  \/ \E p \in PtrId : PtrDestroy(p)
  \/ \E p \in PtrId, i \in 0..(MaxLen - 1), v \in Byte : PtrPoke(p, i, v)

Spec == Init /\ [][Next]_vars

(***************************************************************************)
(* Properties of Spec.                                                     *)
(***************************************************************************)
There == Mem(ptrs', raws', uaf', dfree')

\* C1: every live raw's nref is the number of ptr objects whose _raw it is;
\* a raw nobody references is not left alive (it was deleted when its last
\* reference went), and a deleted raw has no ptr left pointing at it.
C1_RefCountExact ==
  \A r \in RawId :
    IF raws[r].st = "live"
    THEN raws[r].nref = Cardinality(Holders(Here, r)) /\ Holders(Here, r) # {}
    ELSE Holders(Here, r) = {}

\* C2: no raw is deleted while a ptr object still has it as _raw, none is
\* deleted twice, and no operation reads a raw after its deletion.
C2_NoUseAfterFree ==
  /\ ~uaf
  /\ ~dfree
  /\ \A p \in PtrId : ptrs[p].st = "obj" /\ ptrs[p].raw # 0 => Live(Here, ptrs[p].raw)

\* an assignment between two distinct ptrs dropped the last reference to the
\* old raw, which was deleted, and both now share the argument's raw
C2_Witness ==
  /\ lastOp.op = "assign" /\ lastOp.freed /\ lastOp.p # lastOp.q
  /\ ptrs[lastOp.p].raw # 0
  /\ ptrs[lastOp.p].raw = ptrs[lastOp.q].raw
  /\ raws[ptrs[lastOp.p].raw].nref = 2

\* C3: do_cow() leaves the offset, length and bytes that the ptr views as
\* they were, and a content write through that ptr made right after its
\* do_cow() changes the bytes no other ptr views.
C3_CowIsolation ==
  [][ /\ (lastOp'.op = "do_cow" /\ ~aborted') =>
           /\ ptrs'[lastOp'.p].off = ptrs[lastOp'.p].off
           /\ ptrs'[lastOp'.p].len = ptrs[lastOp'.p].len
           /\ View(There, lastOp'.p) = View(Here, lastOp'.p)
      /\ (lastOp'.op = "poke" /\ lastOp'.cow) =>
           \A b \in PtrId \ {lastOp'.p} :
              ptrs[b].st = "obj" /\ ptrs[b].raw # 0 =>
                 View(There, b) = View(Here, b)
    ]_vars

\* a and b viewed the same bytes of one raw, a did do_cow() and wrote: now
\* they are on different raws and a's view differs from b's
C3_Witness ==
  /\ lastOp.op = "poke" /\ lastOp.cow
  /\ \E b \in PtrId \ {lastOp.p} :
       /\ ptrs[b].st = "obj" /\ ptrs[b].raw # 0
       /\ ptrs[b].raw # ptrs[lastOp.p].raw
       /\ ptrs[b].off = ptrs[lastOp.p].off
       /\ ptrs[b].len = ptrs[lastOp.p].len
       /\ ptrs[b].len > 0
       /\ View(Here, b) # View(Here, lastOp.p)

\* C5: p = p changes nothing: not p's raw, offset or length, and not the
\* raw's count or liveness.
C5_SelfAssignNoOp ==
  [][ (lastOp'.op = "assign" /\ lastOp'.p = lastOp'.q) =>
         /\ ptrs' = ptrs
         /\ raws' = raws ]_vars

\* C10: do_cow() on a ptr with a raw returns true exactly when nref > 1 at
\* the call; on false nothing changes; on true the ptr is bound to a raw that
\* was not allocated before, with nref 1, and the old raw's nref is one less.
C10_DoCowContract ==
  [][ (lastOp'.op = "do_cow" /\ ~aborted') =>
        LET p == lastOp'.p
            r == ptrs[p].raw
            n == ptrs'[p].raw
        IN /\ lastOp'.ret <=> raws[r].nref > 1
           /\ ~lastOp'.ret => (ptrs' = ptrs /\ raws' = raws)
           /\ lastOp'.ret =>
                /\ n # 0 /\ n # r
                /\ raws[n].st # "live"
                /\ raws'[n].st = "live" /\ raws'[n].nref = 1
                /\ raws'[r] = [raws[r] EXCEPT !.nref = @ - 1]
                /\ \A x \in RawId \ {n, r} : raws'[x] = raws[x]
                /\ \A x \in PtrId \ {p} : ptrs'[x] = ptrs[x]
    ]_vars

\* a do_cow() that cloned: the ptr is the one holder of its new raw
C10_Witness ==
  /\ lastOp.op = "do_cow" /\ lastOp.ret /\ ~aborted
  /\ raws[ptrs[lastOp.p].raw].nref = 1
  /\ \E r \in RawId \ {ptrs[lastOp.p].raw} : raws[r].st = "live"

\* C19: a ptr object whose _raw is null has _off = 0 and _len = 0.
C19_NullPtrIsEmpty ==
  \A p \in PtrId :
    (ptrs[p].st = "obj" /\ ptrs[p].raw = 0) => (ptrs[p].off = 0 /\ ptrs[p].len = 0)

TypeOK ==
  /\ \A p \in PtrId : ptrs[p].raw \in 0..MaxRaw
  /\ \A p \in PtrId : ptrs[p].st = "obj" /\ ptrs[p].raw # 0 /\ raws[ptrs[p].raw].st = "live"
        => ptrs[p].off + ptrs[p].len <= raws[ptrs[p].raw].len
  /\ \A r \in RawId : raws[r].nref \in 0..MaxNref

(***************************************************************************)
(* SpecSub: the sub-range constructor ptr(p, o, l), for every parent view  *)
(* of a raw of MaxLen bytes (and the null parent) and every pair of        *)
(* unsigned arguments.                                                     *)
(***************************************************************************)
SubParents ==
  {[raw |-> 1, off |-> a, len |-> n] : a \in 0..MaxLen, n \in 0..MaxLen}
  \cup {[raw |-> 0, off |-> 0, len |-> 0]}

InitSub ==
  /\ InitPtr
  /\ wf = IdleWf /\ rb = IdleRb
  /\ fio = IdleFio /\ b64 = IdleB64 /\ th = IdleTh
  /\ \E q \in SubParents, o \in Unsigned, l \in Unsigned :
       /\ q.off + q.len <= MaxLen
       /\ sub = [pc |-> "call", q |-> q, o |-> o, l |-> l,
                 res |-> [ok |-> FALSE, raw |-> 0, off |-> 0, len |-> 0]]

SubConstruct ==
  /\ sub.pc = "call"
  /\ sub' = [sub EXCEPT !.pc = "done", !.res = ptr_sub(sub.q, sub.o, sub.l)]
  /\ UNCHANGED <<ptrs, raws, uaf, dfree, aborted, lastOp, wf, rb, fio, b64, th>>

NextSub == SubConstruct

SpecSub == InitSub /\ [][NextSub]_vars

\* C6: the sub-range constructor aborts whenever the true sum o + l exceeds
\* the parent's length, so a constructed sub-range lies inside its parent's
\* view.
C6_SubRangeAborts ==
  sub.pc = "done" =>
    /\ sub.o + sub.l > sub.q.len => ~sub.res.ok
    /\ sub.res.ok =>
         /\ sub.res.off >= sub.q.off
         /\ sub.res.off + sub.res.len <= sub.q.off + sub.q.len

(***************************************************************************)
(* SpecWrite: buffer::list::write_fd(fd) on a list of segments, against a  *)
(* writev that accepts at least one byte of a non-empty vector, or is      *)
(* interrupted, or fails.  Byte j of segment k is the number 10*k + j, so  *)
(* that every byte of the list is told from every other.                   *)
(***************************************************************************)
MaxSegs == 3     \* segments in the list
MaxSegLen == 2   \* longest segment
IOV_MAX == 3     \* entries of the iovec array (1024 in <limits.h>)
MaxIntr == 1     \* interrupted writev calls in one run
EINTR == 4
HardErrno == {5, 28}   \* EIO, ENOSPC

SegBytes(k, n) == [j \in 1..n |-> 10 * k + j]

RECURSIVE SegLists(_)
SegLists(n) ==
  IF n = 0 THEN {<<>>}
  ELSE {Append(s, SegBytes(n, l)) : s \in SegLists(n - 1), l \in 0..MaxSegLen}

RECURSIVE Flatten(_)
Flatten(segs) ==
  IF segs = <<>> THEN <<>> ELSE Head(segs) \o Flatten(Tail(segs))

NoIov == [seg |-> 0, pos |-> 0, len |-> 0]

\* iov[iovlen].iov_base = p->c_str(); iov[iovlen].iov_len = p->length()
iov_of(k, seg) == [seg |-> k, pos |-> 0, len |-> Len(seg)]

\* the bytes an iovec entry names
IovBytes(segs, e) ==
  IF e.len = 0 THEN <<>> ELSE SubSeq(segs[e.seg], e.pos + 1, e.pos + e.len)

\* the bytes of iov[start .. start+num-1], in order
RECURSIVE VecBytes(_, _, _, _)
VecBytes(segs, iov, start, num) ==
  IF num <= 0 THEN <<>>
  ELSE IovBytes(segs, iov[start]) \o VecBytes(segs, iov, start + 1, num - 1)

\* (mutant) a trim that shortens the element but leaves its base where it was
trim_len_only(e, wrote) == [e EXCEPT !.len = @ - wrote]

\* start[0].iov_len -= wrote; start[0].iov_base += wrote
trim(e, wrote) == [e EXCEPT !.len = @ - wrote, !.pos = @ + wrote]

\* the partial-write recovery: skip the elements written in full, then trim
\* the first one written in part.  `past` is set if the cursor would leave
\* the batch.
RECURSIVE skip_written(_)
skip_written(w) ==
  IF w.start >= w.iovlen THEN [w EXCEPT !.past = TRUE]
  ELSE IF w.wrote >= w.iov[w.start].len
  THEN skip_written([w EXCEPT !.wrote = @ - w.iov[w.start].len,
                              !.bytes = @ - w.iov[w.start].len,
                              !.start = @ + 1,
                              !.num = @ - 1])
  ELSE w

recover(w) ==
  LET w1 == skip_written(w)
  IN IF w1.past \/ w1.wrote <= 0 THEN w1
     ELSE [w1 EXCEPT !.iov[w1.start] = trim(@, w1.wrote),
                     !.bytes = @ - w1.wrote]

\* (mutant) a test that takes a full write for a partial one
partial_write_le(wrote, bytes) == wrote <= bytes

\* if (wrote < bytes): a partial write
partial_write(wrote, bytes) == wrote < bytes

\* (mutant) a failed writev that is returned whatever errno says
writev_failed_return(w, e) ==
  [w EXCEPT !.pc = "done", !.ret = -e, !.err = e, !.wrote = -1]

\* if (wrote < 0) { int err = errno; if (err == EINTR) goto retry; return -err; }
writev_failed(w, e) ==
  IF e = EINTR
  THEN [w EXCEPT !.nintr = @ + 1, !.err = e, !.wrote = -1]
  ELSE [w EXCEPT !.pc = "done", !.ret = -e, !.err = e, !.wrote = -1]

InitWrite ==
  /\ InitPtr
  /\ sub = IdleSub /\ rb = IdleRb
  /\ fio = IdleFio /\ b64 = IdleB64 /\ th = IdleTh
  /\ \E n \in 0..MaxSegs : \E segs \in SegLists(n) :
       wf = [pc |-> "loop", segs |-> segs, p |-> 1,
             iov |-> [i \in 0..(IOV_MAX - 1) |-> NoIov],
             iovlen |-> 0, bytes |-> 0, start |-> 0, num |-> 0, wrote |-> 0,
             out |-> <<>>, ret |-> 0, past |-> FALSE, err |-> 0,
             nintr |-> 0, partial |-> FALSE, batches |-> 0]

WfRest == UNCHANGED <<ptrs, raws, uaf, dfree, aborted, lastOp, sub, rb, fio, b64, th>>

\* one turn of while (p != _buffers.end()), up to the test that decides
\* whether the batch is written now
WfLoop ==
  /\ wf.pc = "loop" /\ wf.p <= Len(wf.segs)
  /\ LET seg == wf.segs[wf.p]
         w1 == IF Len(seg) > 0
               THEN [wf EXCEPT !.iov[wf.iovlen] = iov_of(wf.p, seg),
                               !.bytes = @ + Len(seg),
                               !.iovlen = @ + 1]
               ELSE wf
         w2 == [w1 EXCEPT !.p = @ + 1]
     IN wf' = IF w2.iovlen = IOV_MAX - 1 \/ w2.p > Len(w2.segs)
              THEN [w2 EXCEPT !.start = 0, !.num = w2.iovlen, !.pc = "retry"]
              ELSE w2
  /\ WfRest

\* the loop ends: return 0
WfReturn ==
  /\ wf.pc = "loop" /\ wf.p > Len(wf.segs)
  /\ wf' = [wf EXCEPT !.pc = "done", !.ret = 0]
  /\ WfRest

\* writev(fd, start, num) accepts k bytes
WfWritev(k) ==
  /\ wf.pc = "retry"
  /\ LET sent == VecBytes(wf.segs, wf.iov, wf.start, wf.num)
     IN /\ IF Len(sent) = 0 THEN k = 0 ELSE k \in 1..Len(sent)
        /\ LET w1 == [wf EXCEPT !.out = @ \o SubSeq(sent, 1, k), !.wrote = k]
           IN wf' = IF partial_write(k, w1.bytes)
                    THEN [recover(w1) EXCEPT !.partial = TRUE]
                    ELSE [w1 EXCEPT !.iovlen = 0, !.bytes = 0, !.pc = "loop",
                                    !.batches = @ + 1]
  /\ WfRest

\* writev fails with EINTR: goto retry
WfInterrupted ==
  /\ wf.pc = "retry" /\ wf.nintr < MaxIntr
  /\ wf' = writev_failed(wf, EINTR)
  /\ WfRest

\* writev fails with another error: return -err
WfFail(e) ==
  /\ wf.pc = "retry"
  /\ wf' = writev_failed(wf, e)
  /\ WfRest

NextWrite ==
  \/ WfLoop
  \/ WfReturn
  \/ \E k \in 0..(MaxSegs * MaxSegLen) : WfWritev(k)
  \/ WfInterrupted
  \/ \E e \in HardErrno : WfFail(e)

SpecWrite == InitWrite /\ [][NextWrite]_vars

\* write_fd keeps running until it returns: the thread that called it is not
\* stopped for ever
SpecWriteLive == InitWrite /\ [][NextWrite]_vars /\ WF_vars(NextWrite)

\* C4: when write_fd returns 0, the bytes the descriptor accepted, over all
\* writev calls, are the segments' bytes in list order, each exactly once.
C4_WriteFdDelivers ==
  (wf.pc = "done" /\ wf.ret = 0) => wf.out = Flatten(wf.segs)

\* write_fd returned 0 after more than one batch and a short write, on a
\* list with an empty segment in it
C4_Witness ==
  /\ wf.pc = "done" /\ wf.ret = 0
  /\ wf.batches >= 2 /\ wf.partial
  /\ \E k \in 1..Len(wf.segs) : Len(wf.segs[k]) = 0
  /\ \E k \in 1..Len(wf.segs) : Len(wf.segs[k]) = MaxSegLen
  /\ wf.out = Flatten(wf.segs)

\* C15: write_fd returns in the end; a retry after a partial write has fewer
\* bytes left in the batch than the call before it, and at least one; the
\* cursor never leaves the batch; and a batch is left only when the last
\* writev accepted all that was left of it.
C15_WriteFdReturns ==
  /\ <>(wf.pc = "done")
  /\ [](~wf.past /\ wf.start + wf.num <= IOV_MAX - 1)
  /\ [][ /\ (wf.pc = "retry" /\ wf'.pc = "retry" /\ wf'.wrote >= 0) =>
              /\ wf'.bytes < wf.bytes /\ wf'.bytes > 0
              /\ wf'.num >= 1 /\ wf'.start + wf'.num = wf.start + wf.num
         /\ (wf.pc = "retry" /\ wf'.pc = "loop") =>
              /\ wf'.wrote = wf.bytes
              /\ wf'.out = wf.out \o VecBytes(wf.segs, wf.iov, wf.start, wf.num)
       ]_vars

\* write_fd returned 0 after an interrupted writev and a partial write that
\* went past a whole element and ended in the middle of the next
C15_Witness ==
  /\ wf.pc = "done" /\ wf.ret = 0
  /\ wf.nintr = MaxIntr /\ wf.partial
  /\ wf.start >= 1
  /\ wf.iov[wf.start].pos > 0

\* C16: an interrupted writev is retried with the vector, the byte count and
\* the output as they were, and -EINTR is never returned; a writev failing
\* with another errno makes write_fd return that errno negated at once, no
\* writev following; and 0 is returned only with every segment consumed and
\* every batch written in full.
C16_WritevErrors ==
  [][ /\ (wf.pc = "retry" /\ wf'.nintr # wf.nintr) =>
           /\ wf'.pc = "retry"
           /\ wf'.start = wf.start /\ wf'.num = wf.num /\ wf'.iov = wf.iov
           /\ wf'.bytes = wf.bytes /\ wf'.out = wf.out
           /\ wf'.p = wf.p /\ wf'.iovlen = wf.iovlen
      /\ (wf.pc = "retry" /\ wf'.wrote < 0 /\ wf'.nintr = wf.nintr) =>
           /\ wf'.pc = "done" /\ wf'.ret = -wf'.err /\ wf'.ret < 0
           /\ wf'.out = wf.out
      /\ wf'.pc = "done" =>
           /\ wf'.ret # -EINTR
           /\ wf'.ret = 0 =>
                /\ wf'.p > Len(wf'.segs) /\ wf'.bytes = 0 /\ wf'.iovlen = 0
                /\ wf'.batches >= 1 \/ wf'.segs = <<>>
      /\ wf.pc = "done" => wf' = wf
    ]_vars

\* write_fd returned a hard error from the second batch, after an interrupted
\* writev had been retried and had gone through
C16_Witness ==
  /\ wf.pc = "done" /\ wf.ret < 0 /\ wf.ret = -wf.err
  /\ wf.nintr >= 1 /\ wf.batches >= 1
  /\ wf.out # <<>> /\ Len(wf.out) < Len(Flatten(wf.segs))

(***************************************************************************)
(* SpecRebuild: buffer::list::rebuild_page_aligned(), run twice on a list  *)
(* of segments.  A segment is [raw, off, addr, bytes]: the raw it views,   *)
(* its offset in it, the address of its first byte modulo the page size,   *)
(* and the bytes it views.                                                 *)
(***************************************************************************)
PAGE_SIZE == 2   \* bytes in a page (4096 in the build)
RbSegs == 3      \* segments in the list
RbMaxLen == 4    \* longest segment, in bytes

RECURSIVE RbLists(_)
RbLists(n) ==
  IF n = 0 THEN {<<>>}
  ELSE {Append(s, [raw |-> n, off |-> 0, addr |-> a, bytes |-> SegBytes(n, l)]) :
          s \in RbLists(n - 1), a \in 0..(PAGE_SIZE - 1),
          l \in 0..RbMaxLen}

\* ptr::is_page_aligned(): ((long)c_str() & ~PAGE_MASK) == 0
is_page_aligned(seg) == seg.addr = 0
\* ptr::is_n_page_sized(): (length() & ~PAGE_MASK) == 0
is_n_page_sized(seg) == Len(seg.bytes) % PAGE_SIZE = 0

\* the test that keeps a segment as it is
keep_segment(seg) == is_page_aligned(seg) /\ is_n_page_sized(seg)

\* (mutant) offset = p->length()
next_offset_assign(offset, seg) == Len(seg.bytes)

\* offset += p->length()
next_offset(offset, seg) == offset + Len(seg.bytes)

\* (mutant) a run that stops at the next aligned, page-sized segment
\* wherever the run's own length stands
run_goes_on_no_offset(seg, offset) ==
  ~is_page_aligned(seg) \/ ~is_n_page_sized(seg)

\* the test of the do-while, the iterator being on `seg`
run_goes_on(seg, offset) ==
  \/ ~is_page_aligned(seg)
  \/ ~is_n_page_sized(seg)
  \/ offset % PAGE_SIZE # 0

\* (mutant) a run of one segment, whatever follows it
run_end_one(bufs, p, offset) == p + 1

\* the do-while: the index one past the run that starts at p
RECURSIVE run_end(_, _, _)
run_end(bufs, p, offset) ==
  LET o1 == next_offset(offset, bufs[p])
  IN IF p + 1 <= Len(bufs) /\ run_goes_on(bufs[p + 1], o1)
     THEN run_end(bufs, p + 1, o1)
     ELSE p + 1

MaxRawOf(bufs) ==
  IF bufs = <<>> THEN 0
  ELSE CHOOSE r \in {bufs[i].raw : i \in 1..Len(bufs)} :
         \A i \in 1..Len(bufs) : bufs[i].raw <= r

\* unaligned.rebuild(): the run's bytes in one new page-aligned buffer
rebuild(run, newraw) ==
  [raw |-> newraw, off |-> 0, addr |-> 0, bytes |-> Flatten([i \in 1..Len(run) |-> run[i].bytes])]

\* (mutant) the consolidated segment is put at the end of the list
splice_at_end(before, seg, after) == before \o after \o <<seg>>

\* _buffers.insert(p, unaligned._buffers.front()): p is one past the run
splice(before, seg, after) == before \o <<seg>> \o after

RECURSIVE rebuild_page_aligned(_, _)
rebuild_page_aligned(bufs, p) ==
  IF p > Len(bufs) THEN bufs
  ELSE IF keep_segment(bufs[p]) THEN rebuild_page_aligned(bufs, p + 1)
  ELSE LET e == run_end(bufs, p, 0)
           seg == rebuild(SubSeq(bufs, p, e - 1), MaxRawOf(bufs) + 1)
       IN rebuild_page_aligned(
            splice(SubSeq(bufs, 1, p - 1), seg, SubSeq(bufs, e, Len(bufs))),
            p + 1)

InitRebuild ==
  /\ InitPtr
  /\ sub = IdleSub /\ wf = IdleWf
  /\ fio = IdleFio /\ b64 = IdleB64 /\ th = IdleTh
  /\ \E n \in 0..RbSegs : \E bufs \in RbLists(n) :
       rb = [calls |-> 0, bufs |-> bufs, orig |-> bufs, once |-> <<>>]

RbRebuild ==
  /\ rb.calls < 2
  /\ rb' = [rb EXCEPT !.calls = @ + 1,
                      !.bufs = rebuild_page_aligned(rb.bufs, 1),
                      !.once = IF rb.calls = 0
                               THEN rebuild_page_aligned(rb.bufs, 1) ELSE @]
  /\ UNCHANGED <<ptrs, raws, uaf, dfree, aborted, lastOp, sub, wf, fio, b64, th>>

NextRebuild == RbRebuild

SpecRebuild == InitRebuild /\ [][NextRebuild]_vars

BufBytes(bufs) == Flatten([i \in 1..Len(bufs) |-> bufs[i].bytes])
Shape(bufs) ==
  [i \in 1..Len(bufs) |-> <<Len(bufs[i].bytes), keep_segment(bufs[i])>>]

\* C7: rebuild_page_aligned() leaves the list's bytes, in order, as they were.
C7_RebuildKeepsBytes ==
  rb.calls >= 1 => BufBytes(rb.bufs) = BufBytes(rb.orig)

\* a call that merged a run in the middle of the list and kept a conforming
\* segment on each side of it
C7_Witness ==
  /\ rb.calls = 1
  /\ Len(rb.orig) = 3 /\ Len(rb.bufs) = 3
  /\ keep_segment(rb.orig[1]) /\ ~keep_segment(rb.orig[2]) /\ keep_segment(rb.orig[3])
  /\ Len(rb.orig[1].bytes) > 0 /\ Len(rb.orig[3].bytes) > 0
  /\ rb.bufs[2].raw # rb.orig[2].raw
  /\ BufBytes(rb.bufs) = BufBytes(rb.orig)

\* C8: after rebuild_page_aligned() every segment but the last is page
\* aligned and a whole number of pages long.
C8_OnlyLastMayRemain ==
  rb.calls >= 1 =>
    \A i \in 1..(Len(rb.bufs) - 1) : keep_segment(rb.bufs[i])

\* a call on a list with a non-conforming segment in front of a conforming
\* one, which ends with a remainder as its last segment
C8_Witness ==
  /\ rb.calls = 1
  /\ Len(rb.orig) = 3
  /\ ~keep_segment(rb.orig[1]) /\ keep_segment(rb.orig[2])
  /\ Len(rb.orig[2].bytes) > 0
  /\ Len(rb.bufs) >= 2
  /\ ~keep_segment(rb.bufs[Len(rb.bufs)])

\* C9: a second rebuild_page_aligned() gives as many segments as the first,
\* of the same lengths and the same conformance.
C9_RebuildIdempotent ==
  rb.calls = 2 => Shape(rb.bufs) = Shape(rb.once)

\* two calls, the first of which changed the list and left a remainder for
\* the second to rebuild
C9_Witness ==
  /\ rb.calls = 2
  /\ Shape(rb.once) # Shape(rb.orig)
  /\ Len(rb.once) >= 2
  /\ ~keep_segment(rb.once[Len(rb.once)])
  /\ rb.bufs # rb.once

\* The segments of `bufs` that a pass reaches as the start of a turn of the
\* outer loop and finds conforming: Kept(bufs, i) says segment i is one.
\* RunLen(bufs, j) is the length of the run that segment j ends, 0 if j
\* ends none.
RECURSIVE Kept(_, _)
RECURSIVE RunLen(_, _)
Kept(bufs, i) ==
  /\ Len(bufs[i].bytes) % PAGE_SIZE = 0 /\ bufs[i].addr = 0
  /\ RunLen(bufs, i - 1) % PAGE_SIZE = 0
RunLen(bufs, j) ==
  IF j = 0 THEN 0
  ELSE IF Kept(bufs, j) THEN 0
  ELSE Len(bufs[j].bytes) + RunLen(bufs, j - 1)

RawsOf(bufs) == {bufs[i].raw : i \in 1..Len(bufs)}
OldSegment(x) == x.raw \in RawsOf(rb.orig)
Conforming(x) == x.addr = 0 /\ Len(x.bytes) % PAGE_SIZE = 0
KeptOnes(bufs) ==
  LET RECURSIVE upto(_)
      upto(i) == IF i = 0 THEN <<>>
                 ELSE IF Kept(bufs, i) THEN Append(upto(i - 1), bufs[i])
                 ELSE upto(i - 1)
  IN upto(Len(bufs))

C18_NoEmptySegment ==
  rb.calls >= 1 => \A i \in 1..Len(rb.bufs) : Len(rb.bufs[i].bytes) > 0

(***************************************************************************)
(* SpecFile: buffer::list::read_file and buffer::list::write_file, one     *)
(* system call at a time.  A list is the sequence of its segments'         *)
(* lengths.  close() that returns EINTR has released the descriptor on     *)
(* Linux and has kept it open on some other systems; both are modelled.    *)
(***************************************************************************)
MaxFile == UMod + PAGE_SIZE   \* largest st_size: a page past what `unsigned` holds
MaxList == 1                  \* segments in the list before read_file
EBADF == 9
OpenErrno == {2, 13}          \* ENOENT, EACCES
ReadErrno == {5}              \* EIO
CloseErrno == {5}             \* EIO

\* ROUND_UP_TO(n, d)
ROUND_UP_TO(n, d) == IF n % d # 0 THEN (n + d) - (n % d) ELSE n

\* int s = ROUND_UP_TO(st.st_size, PAGE_SIZE); create_page_aligned(s): the
\* length the raw is created with, s converted to `unsigned`
alloc_len(st_size) == ROUND_UP_TO(st_size, PAGE_SIZE) % UMod

\* bp.set_length(ret): ret converted to `unsigned`
set_length(ret) == ret % UMod

\* append(bp): one more segment at the end of the list
append(list, len) == Append(list, len)

\* TEMP_FAILURE_RETRY(expr): evaluate again while expr fails with EINTR
retry_again(err) == err = EINTR

FileLists == UNION {[1..n -> 1..PAGE_SIZE] : n \in 0..MaxList}

InitFile ==
  /\ InitPtr
  /\ sub = IdleSub /\ wf = IdleWf /\ rb = IdleRb
  /\ b64 = IdleB64 /\ th = IdleTh
  /\ \E op \in {"read", "write"}, n \in 0..MaxFile, l \in FileLists :
       /\ op = "write" => n = 0
       /\ fio = [pc |-> "open", op |-> op, orig |-> l, list |-> l, st_size |-> n,
                 fd |-> "none", opened |-> FALSE, stale |-> 0, nintr |-> 0,
                 err |-> 0, got |-> 0, alloc |-> 0, body |-> 0, ret |-> 0]

FileRest == UNCHANGED <<ptrs, raws, uaf, dfree, aborted, lastOp, sub, wf, rb, b64, th>>

\* TEMP_FAILURE_RETRY(::open(...)) when open fails with errno e (0: it
\* succeeds): read_file lines 213-220, write_file lines 254-260
open_result(f, e) ==
  IF e = 0 THEN [f EXCEPT !.fd = "open", !.opened = TRUE, !.pc = "body"]
  ELSE IF retry_again(e) THEN [f EXCEPT !.nintr = @ + 1]
  ELSE [f EXCEPT !.err = e, !.ret = -e, !.pc = "done"]

FOpen(e) ==
  /\ fio.pc = "open"
  /\ e = EINTR => fio.nintr < MaxIntr
  /\ fio' = open_result(fio, e)
  /\ FileRest

\* read_file lines 222-237: fstat, the allocation, safe_read returning ret
\* (the bytes read, or a negated errno)
read_result(f, ret) ==
  LET f1 == [f EXCEPT !.alloc = alloc_len(f.st_size), !.body = ret, !.pc = "close"]
  IN IF ret < 0 THEN [f1 EXCEPT !.err = -ret] ELSE [f1 EXCEPT !.got = ret]

RfRead(ret) ==
  /\ fio.pc = "body" /\ fio.op = "read"
  /\ ret <= fio.st_size
  /\ fio' = read_result(fio, ret)
  /\ FileRest

\* write_file line 261: int ret = write_fd(fd)
WfileWrite(ret) ==
  /\ fio.pc = "body" /\ fio.op = "write"
  /\ fio' = [fio EXCEPT !.body = ret, !.pc = "close"]
  /\ FileRest

\* what follows the close: read_file lines 236 and 247-249, write_file
\* lines 266 and 268-274.  e is the errno TEMP_FAILURE_RETRY(::close(fd))
\* ended with (0: close returned 0).
after_close(f, e) ==
  IF f.op = "read"
  THEN IF f.body < 0 THEN [f EXCEPT !.ret = f.body, !.pc = "done"]
       ELSE [f EXCEPT !.list = append(@, set_length(f.body)), !.ret = 0, !.pc = "done"]
  ELSE IF f.body # 0 THEN [f EXCEPT !.ret = f.body, !.pc = "done"]
       ELSE IF e # 0 THEN [f EXCEPT !.ret = -e, !.pc = "done"]
       ELSE [f EXCEPT !.ret = 0, !.pc = "done"]

\* one ::close(fd) ending with errno e (0: success); `kept` says whether a
\* close that failed with EINTR left the descriptor open
close_once(f, e, kept) ==
  IF f.fd # "open"
  THEN after_close([f EXCEPT !.stale = @ + 1], EBADF)
  ELSE IF retry_again(e)
       THEN [f EXCEPT !.fd = IF kept THEN "open" ELSE "closed", !.nintr = @ + 1]
       ELSE after_close([f EXCEPT !.fd = "closed"], e)

FClose(e, kept) ==
  /\ fio.pc = "close"
  /\ e = EINTR => fio.nintr < MaxIntr
  /\ fio.fd # "open" => e = EBADF /\ kept
  /\ fio.fd = "open" => e # EBADF /\ (kept => e = EINTR)
  /\ fio' = close_once(fio, e, kept)
  /\ FileRest

NextFile ==
  \/ \E e \in {0, EINTR} \cup OpenErrno : FOpen(e)
  \/ \E ret \in {-e : e \in ReadErrno} \cup (0..MaxFile) : RfRead(ret)
  \/ \E ret \in {0} \cup {-e : e \in HardErrno} : WfileWrite(ret)
  \/ \E e \in {0, EINTR, EBADF} \cup CloseErrno, kept \in BOOLEAN : FClose(e, kept)

SpecFile == InitFile /\ [][NextFile]_vars

\* C11: read_file returns the negated errno and leaves the list as it was when
\* the open or the read fails; otherwise it returns 0 with one segment more,
\* as long as the bytes read, which are no more than st_size and no more than
\* the raw allocated for them.
C11_ReadFileContract ==
  (fio.pc = "done" /\ fio.op = "read") =>
    IF fio.err # 0
    THEN fio.ret = -fio.err /\ fio.list = fio.orig
    ELSE /\ fio.ret = 0
         /\ Len(fio.list) = Len(fio.orig) + 1
         /\ SubSeq(fio.list, 1, Len(fio.orig)) = fio.orig
         /\ fio.list[Len(fio.list)] = fio.got
         /\ fio.got <= fio.st_size
         /\ fio.got <= fio.alloc

\* C12: when read_file or write_file returns after a successful open, the
\* descriptor is closed and no close() was issued on it after it was released.
C12_FdClosedOnce ==
  (fio.pc = "done" /\ fio.opened) => (fio.fd = "closed" /\ fio.stale = 0)

(***************************************************************************)
(* SpecThreads: NThreads threads, each owning one ptr onto the same raw,   *)
(* run with no lock between them.  A step is one atomic operation on nref  *)
(* (inc, dec, read), the start or the end of a clone's copy, a delete, or  *)
(* a content write; what a thread does to its own ptr object goes with     *)
(* the step before it.  Raw 1 is the shared raw, raw t + 1 the clone that  *)
(* thread t allocates.                                                     *)
(***************************************************************************)
NThreads == 3    \* threads, each with its own ptr onto raw 1

ThreadId == 1..NThreads
ThRaw == 1..(NThreads + 1)
\* what a thread runs: release(); a copy construction, then release() of the
\* copy and of its own ptr; do_cow() and a content write
Progs == {"release", "copy", "cow"}
FirstPc(prog) == CASE prog = "release" -> "rel_dec"
                   [] prog = "copy" -> "copy"
                   [] prog = "cow" -> "cow_read"

InitThreads ==
  /\ InitPtr
  /\ sub = IdleSub /\ wf = IdleWf /\ rb = IdleRb
  /\ fio = IdleFio /\ b64 = IdleB64
  /\ \E progs \in [ThreadId -> Progs] :
       th = [pc |-> "run",
             raws |-> [r \in ThRaw |-> IF r = 1 THEN [st |-> "live", nref |-> NThreads]
                                        ELSE [st |-> "dead", nref |-> 0]],
             t |-> [t \in ThreadId |->
                      [prog |-> progs[t], pc |-> FirstPc(progs[t]),
                       raw |-> 1, raw2 |-> 0, cur |-> "raw", after |-> "done",
                       val |-> 0, cloned |-> FALSE, wrote |-> 0]],
             uaf |-> FALSE, dfree |-> FALSE, incdead |-> FALSE, race |-> FALSE,
             dels |-> 0, delval |-> 0]

ThRest == UNCHANGED <<ptrs, raws, uaf, dfree, aborted, lastOp, sub, wf, rb, fio, b64>>

ThLive(s, r) == r # 0 /\ s.raws[r].st = "live"

\* release() is over: go on with what called it
th_return(s, t) ==
  IF s.t[t].after = "own"
  THEN [s EXCEPT !.t[t].cur = "raw", !.t[t].after = "done", !.t[t].pc = "rel_dec"]
  ELSE [s EXCEPT !.t[t].pc = s.t[t].after]

\* (mutant) a release that takes the last but one reference for the last
last_reference_le1(n) == n <= 1

\* _raw->nref.dec() == 0
last_reference(n) == n = 0

\* release(), up to the delete: if (_raw) { if (_raw->nref.dec() == 0) ...
th_release_dec(s, t) ==
  LET r == s.t[t][s.t[t].cur]
      n == s.raws[r].nref - 1
  IN IF r = 0 THEN th_return(s, t)
     ELSE IF ~ThLive(s, r)
     THEN th_return([s EXCEPT !.uaf = TRUE, !.t[t][s.t[t].cur] = 0], t)
     ELSE IF last_reference(n)
     THEN [s EXCEPT !.raws[r].nref = n, !.t[t].val = n, !.t[t].pc = "rel_delete"]
     ELSE th_return([s EXCEPT !.raws[r].nref = n, !.t[t][s.t[t].cur] = 0], t)

\* release(), the rest: delete _raw; _raw = 0
th_release_delete(s, t) ==
  LET r == s.t[t][s.t[t].cur]
      s1 == IF ThLive(s, r)
            THEN [s EXCEPT !.raws[r].st = "dead",
                           !.dels = IF r = 1 THEN @ + 1 ELSE @,
                           !.delval = IF r = 1 THEN s.t[t].val ELSE @]
            ELSE [s EXCEPT !.dfree = TRUE,
                           !.dels = IF r = 1 THEN @ + 1 ELSE @]
  IN th_return([s1 EXCEPT !.t[t][s.t[t].cur] = 0], t)

\* ptr(const ptr& p), p the thread's own ptr: _raw(p._raw); _raw->nref.inc()
th_copy(s, t) ==
  LET r == s.t[t].raw
      s1 == IF ThLive(s, r) /\ s.raws[r].nref > 0
            THEN [s EXCEPT !.raws[r].nref = @ + 1]
            ELSE [s EXCEPT !.incdead = TRUE]
  IN [s1 EXCEPT !.t[t].raw2 = r, !.t[t].cur = "raw2", !.t[t].after = "own",
                !.t[t].pc = "rel_dec"]

\* (mutant) a do_cow that never clones
th_cow_read_never(s, t) == [s EXCEPT !.t[t].pc = "poke"]

\* do_cow(): if (_raw->nref.read() > 1)
th_cow_read(s, t) ==
  LET r == s.t[t].raw
  IN IF ~ThLive(s, r) THEN [s EXCEPT !.uaf = TRUE, !.t[t].pc = "poke"]
     ELSE IF is_shared(s.raws[r].nref) THEN [s EXCEPT !.t[t].pc = "clone_begin"]
     ELSE [s EXCEPT !.t[t].pc = "poke"]

\* clone_in_place(): _raw->clone() starts to copy the raw's bytes
th_clone_begin(s, t) ==
  IF ThLive(s, s.t[t].raw) THEN [s EXCEPT !.t[t].pc = "clone_end"]
  ELSE [s EXCEPT !.uaf = TRUE, !.t[t].pc = "clone_end"]

\* clone_in_place(): the copy is over, newraw stands; release() comes next
th_clone_end(s, t) ==
  LET s1 == IF ThLive(s, s.t[t].raw) THEN s ELSE [s EXCEPT !.uaf = TRUE]
  IN [s1 EXCEPT !.raws[t + 1] = [st |-> "live", nref |-> 0],
                !.t[t].cloned = TRUE,
                !.t[t].cur = "raw", !.t[t].after = "new_inc", !.t[t].pc = "rel_dec"]

\* clone_in_place(): newraw->nref.inc(); _raw = newraw
th_new_inc(s, t) ==
  [s EXCEPT !.raws[t + 1].nref = @ + 1, !.t[t].raw = t + 1, !.t[t].pc = "poke"]

\* another thread is in the middle of cloning from r, or has a counted
\* reference to r
ThOthers(s, t, r) ==
  {u \in ThreadId \ {t} :
     \/ s.t[u].pc = "clone_end" /\ s.t[u].raw = r
     \/ s.t[u].pc # "rel_delete" /\ (s.t[u].raw = r \/ s.t[u].raw2 = r)}

\* a content write through the thread's ptr
th_poke(s, t) ==
  LET r == s.t[t].raw
      s1 == IF ThLive(s, r) THEN s ELSE [s EXCEPT !.uaf = TRUE]
      s2 == IF ThOthers(s, t, r) # {} THEN [s1 EXCEPT !.race = TRUE] ELSE s1
  IN [s2 EXCEPT !.t[t].wrote = r, !.t[t].pc = "done"]

TRelDec(t) ==
  /\ th.pc = "run" /\ th.t[t].pc = "rel_dec"
  /\ th' = th_release_dec(th, t)
  /\ ThRest

TRelDelete(t) ==
  /\ th.pc = "run" /\ th.t[t].pc = "rel_delete"
  /\ th' = th_release_delete(th, t)
  /\ ThRest

TCopy(t) ==
  /\ th.pc = "run" /\ th.t[t].pc = "copy"
  /\ th' = th_copy(th, t)
  /\ ThRest

TCowRead(t) ==
  /\ th.pc = "run" /\ th.t[t].pc = "cow_read"
  /\ th' = th_cow_read(th, t)
  /\ ThRest

TCloneBegin(t) ==
  /\ th.pc = "run" /\ th.t[t].pc = "clone_begin"
  /\ th' = th_clone_begin(th, t)
  /\ ThRest

TCloneEnd(t) ==
  /\ th.pc = "run" /\ th.t[t].pc = "clone_end"
  /\ th' = th_clone_end(th, t)
  /\ ThRest

TNewInc(t) ==
  /\ th.pc = "run" /\ th.t[t].pc = "new_inc"
  /\ th' = th_new_inc(th, t)
  /\ ThRest

TPoke(t) ==
  /\ th.pc = "run" /\ th.t[t].pc = "poke"
  /\ th' = th_poke(th, t)
  /\ ThRest

NextThreads ==
  \/ \E t \in ThreadId : TRelDec(t)
  \/ \E t \in ThreadId : TRelDelete(t)
  \/ \E t \in ThreadId : TCopy(t)
  \/ \E t \in ThreadId : TCowRead(t)
  \/ \E t \in ThreadId : TCloneBegin(t)
  \/ \E t \in ThreadId : TCloneEnd(t)
  \/ \E t \in ThreadId : TNewInc(t)
  \/ \E t \in ThreadId : TPoke(t)

SpecThreads == InitThreads /\ [][NextThreads]_vars

ThAllDone == th.pc = "run" /\ \A t \in ThreadId : th.t[t].pc = "done"
ThHolders(r) == {t \in ThreadId : th.t[t].raw = r \/ th.t[t].raw2 = r}

\* C13: under every interleaving the shared raw is deleted at most once, by a
\* thread whose dec returned 0 and when no counted reference is left; no inc
\* is applied to a raw that is deleted or whose nref is 0; and once all the
\* threads have ended and none holds the raw, it has been deleted once.
C13_DeletedOnce ==
  th.pc = "run" =>
    /\ th.dels <= 1 /\ ~th.dfree /\ ~th.incdead
    /\ th.dels = 1 => (th.delval = 0 /\ th.raws[1].st = "dead")
    /\ th.raws[1].st = "dead" =>
         \A t \in ThreadId : th.t[t].pc # "rel_delete" =>
            (th.t[t].raw # 1 /\ th.t[t].raw2 # 1)
    /\ (ThAllDone /\ ThHolders(1) = {}) => th.dels = 1

\* all threads ended, one of them after a copy construction and another
\* after a plain release, and the shared raw was deleted
C13_Witness ==
  /\ ThAllDone
  /\ \E t \in ThreadId : th.t[t].prog = "copy"
  /\ \E t \in ThreadId : th.t[t].prog = "release"
  /\ \A t \in ThreadId : th.t[t].prog # "cow"
  /\ th.dels = 1 /\ th.raws[1].st = "dead"

\* C20: threads that do_cow() and then write, each through its own ptr, never
\* read, copy from or write a deleted raw, never write a raw another thread
\* is cloning from or still references, and end as the one owner of the raw
\* they wrote.
C20_CowThreads ==
  th.pc = "run" =>
    /\ ~th.uaf /\ ~th.race
    /\ \A t \in ThreadId :
         (th.t[t].prog = "cow" /\ th.t[t].pc = "done") =>
            /\ th.t[t].wrote = th.t[t].raw
            /\ th.raws[th.t[t].raw].st = "live"
            /\ th.raws[th.t[t].raw].nref = 1

\* every thread ran do_cow() and wrote; two cloned, the last one found itself
\* the only owner and wrote the shared raw in place
C20_Witness ==
  /\ ThAllDone
  /\ \A t \in ThreadId : th.t[t].prog = "cow"
  /\ Cardinality({t \in ThreadId : th.t[t].cloned}) = NThreads - 1
  /\ \E t \in ThreadId : th.t[t].wrote = 1 /\ th.raws[1].nref = 1

(***************************************************************************)
(* SpecB64: buffer::list::decode_base64(e) called on a list `self` with    *)
(* an encoded list e.  A list is the sequence of its bytes.  The armor     *)
(* decoder is a black box: any result from a negative one up to the size   *)
(* of the destination.                                                     *)
(***************************************************************************)
MaxB64 == 3      \* longest list, in bytes
per == 2         \* bytes in a row of the dump (16 in hexdump)
B64Bytes == {0, 65}   \* a byte that is not printable, and 'A'
B64Lists == UNION {[1..n -> B64Bytes] : n \in 0..MaxB64}

\* isupper(c) || islower(c) || isdigit(c) || c == ' ' || ispunct(c)
printable(c) == c \in 32..126

\* one row of hexdump: the offset, the bytes in hex, the padding, the text
hex_row(bytes, o) ==
  LET n == Min({per, Len(bytes) - o})
  IN [off |-> o,
      hex |-> [i \in 1..n |-> bytes[o + i] % 256],
      pad |-> per - n,
      text |-> [i \in 1..n |-> IF printable(bytes[o + i]) THEN <<bytes[o + i]>> ELSE "."]]

\* list::hexdump(out) on a list holding `bytes`: what it writes to out
hexdump(bytes) ==
  [k \in 1..((Len(bytes) + per - 1) \div per) |-> hex_row(bytes, (k - 1) * per)]

\* bufferptr bp(4 + ((e.length() * 3) / 4)): the destination's length
decoded_size(elen) == 4 + ((elen * 3) \div 4)

\* decode_base64(e) on the list `self`, the decoder returning l
decode_base64(self, e, l) ==
  IF l < 0
  THEN [pc |-> "thrown", self |-> self, e |-> e, l |-> l,
        what |-> hexdump(self), added |-> 0]
  ELSE [pc |-> "done", self |-> self, e |-> e, l |-> l,
        what |-> <<>>, added |-> l]

InitB64 ==
  /\ InitPtr
  /\ sub = IdleSub /\ wf = IdleWf /\ rb = IdleRb
  /\ fio = IdleFio /\ th = IdleTh
  /\ \E self \in B64Lists, e \in B64Lists :
       b64 = [pc |-> "call", self |-> self, e |-> e, l |-> 0, what |-> <<>>, added |-> 0]

B64Decode(l) ==
  /\ b64.pc = "call"
  /\ l <= decoded_size(Len(b64.e))
  /\ b64' = decode_base64(b64.self, b64.e, l)
  /\ UNCHANGED <<ptrs, raws, uaf, dfree, aborted, lastOp, sub, wf, rb, fio, th>>

NextB64 == \E l \in (-1)..decoded_size(MaxB64) : B64Decode(l)

SpecB64 == InitB64 /\ [][NextB64]_vars

\* C14: when the decoder returns a negative result, decode_base64(e) throws
\* malformed_input, and the dump in what it throws is the hex dump of e.
C14_DumpsTheInput ==
  /\ (b64.pc # "call" /\ b64.l < 0) => b64.pc = "thrown"
  /\ b64.pc = "thrown" => b64.what = hexdump(b64.e)

====
